---- MODULE Spec2Model ----
(***************************************************************************)
(* The ECS pattern constructs of aws-ecs-patterns:                         *)
(*   ApplicationLoadBalancedServiceBase, ApplicationLoadBalancedEc2Service *)
(*   and ApplicationMultipleTargetGroupsServiceBase.                       *)
(*                                                                         *)
(* A construct is named by its path in the construct tree, a tuple of ids  *)
(* from the stack down: <<"Stack", "Svc", "LB">>.  The empty path stands   *)
(* for an object reference that is undefined.  An optional string or enum  *)
(* that is not supplied is the string "undefined"; an optional array or    *)
(* number is wrapped: <<>> when not supplied, <<v>> when supplied.         *)
(***************************************************************************)
EXTENDS Integers, Sequences, FiniteSets, TLC

VARIABLES
    pc,      \* "start" before the constructor call, "done" after it returned or threw
    tree,    \* the constructs that exist outside the service: set of [path, kind, props]
    svc      \* the service object the last constructor call worked on

vars == <<pc, tree, svc>>

----------------------------------------------------------------------------
(* Values *)

None == "undefined"
NoRef == <<>>
Undefined == <<>>
Some(v) == <<v>>
IsDef(o) == o # <<>>
Val(o) == o[1]

HTTP == "HTTP"
HTTPS == "HTTPS"
TCP == "tcp"
UDP == "udp"

StackPath == <<"Stack">>
NodeId(path) == path[Len(path)]
ScopeOf(path) == SubSeq(path, 1, Len(path) - 1)

ErrVpcOrCluster == "You can only specify either vpc or cluster. Alternatively, you can leave both blank"
ErrCertNeedsHttps == "The HTTPS protocol must be used when a certificate is given"
ErrNoLoadBalancer == "At least one load balancer should be specified"
ErrNoListener == "At least one listener should be specified"
ErrLbName == "Name of the new load balancer is required."
ErrDomainForHttps == "A domain name and zone is required when using the HTTPS protocol"
ErrZoneForDomain == "A Route53 hosted domain zone name is required to configure the specified domain name"
ErrBothTaskDef == "You must specify either a taskDefinition or taskImageOptions, not both."
ErrNoTaskDef == "You must specify one of: taskDefinition or image"
ErrNoTargetGroup == "At least one target group should be specified."
ErrListenerNotDefined == "Listener is not defined"
ErrDuplicateId == "There is already a Construct with this name in the scope"

----------------------------------------------------------------------------
(* The object under construction.  `nodes` are the constructs the call has  *)
(* created so far, in creation order; `pre` are the paths that existed      *)
(* before the call; `error` is the message of the exception that ended the  *)
(* call, if any; `ret` carries the return value of the last method and      *)
(* `loc` the local variables of the constructor.  Every method takes the    *)
(* object and returns it as the method leaves it; a method called on an     *)
(* object whose call has already thrown leaves it as it is.                 *)

NoLocals ==
    [lb |-> NoRef, loadBalancerTemp |-> NoRef, listenerTemp |-> NoRef, certificate |-> NoRef,
     listener |-> NoRef, domainName |-> None, targetGroup |-> NoRef]

NewThis(pre, id) ==
    [ path         |-> StackPath \o <<id>>,
      pre          |-> pre,
      nodes        |-> <<>>,
      error        |-> None,
      ret          |-> NoRef,
      loc          |-> NoLocals,
      cluster      |-> NoRef,
      desiredCount |-> Undefined,
      loadBalancer |-> NoRef,
      listener     |-> NoRef,
      certificate  |-> NoRef,
      listeners    |-> <<>>,
      taskDefinition |-> NoRef,
      defaultContainer |-> Undefined,
      service      |-> NoRef,
      targetGroup  |-> NoRef ]

Failed(this) == this.error # None
Throw(this, msg) == [this EXCEPT !.error = msg]
Return(this, v) == [this EXCEPT !.ret = v]

Nodes(this) == this.pre \cup {this.nodes[i] : i \in DOMAIN this.nodes}
NodePaths(this) == {n.path : n \in Nodes(this)}
Exists(this, path) == path \in NodePaths(this)
NodeAt(this, path) == CHOOSE n \in Nodes(this) : n.path = path

\* new X(scope, id, props): the construct tree refuses a second child with
\* the same id under one scope.
AddChild(this, scope, id, kind, props) ==
    IF Failed(this) THEN this
    ELSE IF Exists(this, scope \o <<id>>) THEN Throw(this, ErrDuplicateId)
    ELSE [this EXCEPT !.nodes = Append(@, [path |-> scope \o <<id>>, kind |-> kind, props |-> props]),
                      !.ret = scope \o <<id>>]

----------------------------------------------------------------------------
(* Methods shared, with the same text, by ApplicationLoadBalancedServiceBase *)
(* and ApplicationMultipleTargetGroupsServiceBase.                           *)

\* cluster.vpc: the vpc the cluster was given, or the one it made for itself.
ClusterVpc(this, cluster) ==
    IF NodeAt(this, cluster).props.vpc # NoRef
    THEN NodeAt(this, cluster).props.vpc
    ELSE cluster \o <<"Vpc">>

\* loadBalancer.loadBalancerDnsName
DnsName(lb) == NodeId(lb) \o ".elb.amazonaws.com"

ToLower(protocol) == IF protocol = HTTPS THEN "https" ELSE "http"

DefaultClusterId(vpc) ==
    "EcsDefaultClusterMnL3mNNYN" \o (IF vpc # NoRef THEN NodeId(vpc) ELSE "")

\* mutant: the cluster is created without looking for an existing one
getDefaultCluster_AlwaysNew(this, vpc) ==
    AddChild(this, StackPath, DefaultClusterId(vpc), "Cluster", [vpc |-> vpc])

\* mutant: the existing cluster is looked for under the id without the vpc's
getDefaultCluster_FindWithoutVpcId(this, vpc) ==
    IF Failed(this) THEN this
    ELSE IF Exists(this, StackPath \o <<DefaultClusterId(NoRef)>>)
    THEN Return(this, StackPath \o <<DefaultClusterId(NoRef)>>)
    ELSE AddChild(this, StackPath, DefaultClusterId(vpc), "Cluster", [vpc |-> vpc])

getDefaultCluster(this, vpc) ==
    IF Failed(this) THEN this
    ELSE IF Exists(this, StackPath \o <<DefaultClusterId(vpc)>>)
    THEN Return(this, StackPath \o <<DefaultClusterId(vpc)>>)
    ELSE AddChild(this, StackPath, DefaultClusterId(vpc), "Cluster", [vpc |-> vpc])

\* mutant: publicLoadBalancer is not read, the new load balancer is always internet-facing
createLoadBalancer_AlwaysPublic(this, name, publicLoadBalancer, loadBalancer) ==
    IF Failed(this) THEN this
    ELSE IF loadBalancer # NoRef THEN Return(this, loadBalancer)
    ELSE IF name = None \/ name = "" THEN Throw(this, ErrLbName)
    ELSE AddChild(this, this.path, name, "ApplicationLoadBalancer",
                  [vpc |-> ClusterVpc(this, this.cluster), internetFacing |-> "true"])

createLoadBalancer(this, name, publicLoadBalancer, loadBalancer) ==
    IF Failed(this) THEN this
    ELSE IF loadBalancer # NoRef THEN Return(this, loadBalancer)
    ELSE IF name = None \/ name = "" THEN Throw(this, ErrLbName)
    ELSE AddChild(this, this.path, name, "ApplicationLoadBalancer",
                  [vpc |-> ClusterVpc(this, this.cluster),
                   internetFacing |-> IF publicLoadBalancer # None THEN publicLoadBalancer ELSE "true"])

\* mutant: the certificate does not raise the default protocol to HTTPS
createListenerProtocol_IgnoreCertificate(listenerProtocol, certificate) ==
    IF listenerProtocol # None THEN listenerProtocol ELSE HTTP

createListenerProtocol(listenerProtocol, certificate) ==
    IF listenerProtocol # None THEN listenerProtocol
    ELSE IF certificate # NoRef THEN HTTPS ELSE HTTP

createListenerCertificate(this, certificate, domainName, domainZone) ==
    IF Failed(this) THEN this
    ELSE IF domainName = None \/ domainZone = NoRef THEN Throw(this, ErrDomainForHttps)
    ELSE IF certificate # NoRef THEN Return(this, certificate)
    ELSE AddChild(this, this.path, "Certificate", "DnsValidatedCertificate",
                  [domainName |-> domainName, hostedZone |-> domainZone])

createListener(this, name, lb, protocol) ==
    AddChild(this, lb, name, "ApplicationListener",
             [protocol |-> protocol, open |-> TRUE, certificateArns |-> <<>>])

\* listener.addCertificateArns('Arns', [certificate.certificateArn])
addCertificateArns(this, listener, certificate) ==
    [this EXCEPT !.nodes = [i \in DOMAIN @ |->
        IF @[i].path = listener
        THEN [@[i] EXCEPT !.props.certificateArns = Append(@, certificate)]
        ELSE @[i]]]

\* const listener = this.createListener(...)
ListenerCreated(this) ==
    IF Failed(this) THEN this ELSE [this EXCEPT !.loc.listener = this.ret]

\* certificate = HTTPS ? this.createListenerCertificate(...) : undefined
ListenerCertificate(this, protocol, props) ==
    IF Failed(this) THEN this
    ELSE IF protocol = HTTPS
    THEN createListenerCertificate(this, props.certificate, props.domainName, props.domainZone)
    ELSE Return(this, NoRef)

\* if (certificate !== undefined) { listener.addCertificateArns(...) }  return { certificate, listener }
ListenerConfigured(this) ==
    IF Failed(this) THEN this
    ELSE Return(IF this.ret # NoRef THEN addCertificateArns(this, this.loc.listener, this.ret) ELSE this,
                [certificate |-> this.ret, listener |-> this.loc.listener])

configListener(this, protocol, props) ==
    ListenerConfigured(
        ListenerCertificate(
            ListenerCreated(createListener(this, props.listenerName, props.loadBalancer, protocol)),
            protocol, props))

\* domainName = record.domainName
RecordDomainName(this, name) ==
    IF Failed(this) THEN this ELSE Return(this, name)

createDomainName(this, loadBalancer, name, zone) ==
    IF Failed(this) THEN this
    ELSE IF name # None
         THEN IF zone = NoRef THEN Throw(this, ErrZoneForDomain)
              ELSE RecordDomainName(
                       AddChild(this, this.path, "DNS", "ARecord",
                                [zone |-> zone, recordName |-> name, target |-> loadBalancer]),
                       name)
         ELSE Return(this, DnsName(loadBalancer))

CfnOutput(this, id, value) ==
    AddChild(this, this.path, id, "CfnOutput", [value |-> value])

\* this.cluster = props.cluster || this.getDefaultCluster(this, props.vpc)
ClusterAssigned(this) ==
    IF Failed(this) THEN this ELSE [this EXCEPT !.cluster = this.ret]

SetCluster(this, props) ==
    IF Failed(this) THEN this
    ELSE IF props.cluster # NoRef THEN [this EXCEPT !.cluster = props.cluster]
    ELSE ClusterAssigned(getDefaultCluster(this, props.vpc))

\* this.desiredCount = props.desiredCount || 1
SetDesiredCount(this, props) ==
    IF Failed(this) THEN this
    ELSE [this EXCEPT !.desiredCount =
             IF IsDef(props.desiredCount) /\ Val(props.desiredCount) # 0
             THEN props.desiredCount ELSE Some(1)]

\* mutant: loadBalancerTemp = lb, the last load balancer instead of the first
LoadBalancerOfEntry_KeepLast(this) ==
    IF Failed(this) THEN this
    ELSE [this EXCEPT !.loc.lb = this.ret, !.loc.loadBalancerTemp = this.ret]

\* const lb = this.createLoadBalancer(...); loadBalancerTemp = loadBalancerTemp || lb
LoadBalancerOfEntry(this) ==
    IF Failed(this) THEN this
    ELSE [this EXCEPT !.loc.lb = this.ret,
                      !.loc.loadBalancerTemp = IF @ # NoRef THEN @ ELSE this.ret]

\* const domainName = this.createDomainName(...)
DomainNameCreated(this) ==
    IF Failed(this) THEN this ELSE [this EXCEPT !.loc.domainName = this.ret]

\* this.loadBalancer = this.createLoadBalancer('LB', ...)
LoadBalancerAssigned(this) ==
    IF Failed(this) THEN this ELSE [this EXCEPT !.loadBalancer = this.ret]

\* mutant: the check of listenerTemp is missing
AssignFirstAdded_NoListenerCheck(this, withCertificate) ==
    IF Failed(this) THEN this
    ELSE IF this.loc.loadBalancerTemp = NoRef THEN Throw(this, ErrNoLoadBalancer)
    ELSE [this EXCEPT !.loadBalancer = this.loc.loadBalancerTemp,
                      !.certificate = IF withCertificate THEN this.loc.certificate ELSE @,
                      !.listener = this.loc.listenerTemp]

\* this.loadBalancer = loadBalancerTemp; this.listener = listenerTemp, with their checks
AssignFirstAdded(this, withCertificate) ==
    IF Failed(this) THEN this
    ELSE IF this.loc.loadBalancerTemp = NoRef THEN Throw(this, ErrNoLoadBalancer)
    ELSE IF this.loc.listenerTemp = NoRef
         THEN Throw([this EXCEPT !.loadBalancer = this.loc.loadBalancerTemp], ErrNoListener)
    ELSE [this EXCEPT !.loadBalancer = this.loc.loadBalancerTemp,
                      !.certificate = IF withCertificate THEN this.loc.certificate ELSE @,
                      !.listener = this.loc.listenerTemp]

----------------------------------------------------------------------------
(* ApplicationLoadBalancedServiceBase *)

\* mutant: the check of cluster and vpc is missing
validateInput_NoClusterCheck(this, props) ==
    IF Failed(this) THEN this
    ELSE IF props.certificate # NoRef /\ props.protocol # None /\ props.protocol # HTTPS
    THEN Throw(this, ErrCertNeedsHttps)
    ELSE this

\* mutant: the check of the certificate is skipped when loadBalancers is set
validateInput_CertificateCheckSingleOnly(this, props) ==
    IF Failed(this) THEN this
    ELSE IF props.cluster # NoRef /\ props.vpc # NoRef
    THEN Throw(this, ErrVpcOrCluster)
    ELSE IF /\ ~IsDef(props.loadBalancers)
            /\ props.certificate # NoRef /\ props.protocol # None /\ props.protocol # HTTPS
    THEN Throw(this, ErrCertNeedsHttps)
    ELSE this

validateInput(this, props) ==
    IF Failed(this) THEN this
    ELSE IF props.cluster # NoRef /\ props.vpc # NoRef
    THEN Throw(this, ErrVpcOrCluster)
    ELSE IF props.certificate # NoRef /\ props.protocol # None /\ props.protocol # HTTPS
    THEN Throw(this, ErrCertNeedsHttps)
    ELSE this

\* this.listeners.push(...); certificate = options.certificate; listenerTemp = listenerTemp || options.listener
AlbListenerAdded(this, listenerProps) ==
    IF Failed(this) THEN this
    ELSE [this EXCEPT !.listeners = Append(@, [name |-> listenerProps.name, listener |-> this.ret.listener]),
                      !.loc.certificate = this.ret.certificate,
                      !.loc.listenerTemp = IF @ # NoRef THEN @ ELSE this.ret.listener]

AlbListenerBody(this, protocol, lbProps, listenerProps) ==
    AlbListenerAdded(
        configListener(this, protocol,
            [certificate  |-> listenerProps.certificate,
             domainName   |-> lbProps.domainName,
             domainZone   |-> lbProps.domainZone,
             listenerName |-> listenerProps.name,
             loadBalancer |-> this.loc.lb]),
        listenerProps)

\* for (const listenerProps of lbProps.listeners) { ... }, from its j-th element on
RECURSIVE AlbListenerLoop(_, _, _, _)
AlbListenerLoop(this, protocol, lbProps, j) ==
    IF Failed(this) \/ j > Len(Val(lbProps.listeners)) THEN this
    ELSE AlbListenerLoop(AlbListenerBody(this, protocol, lbProps, Val(lbProps.listeners)[j]),
                         protocol, lbProps, j + 1)

\* if (lbProps.listeners) { for ... }
AlbListeners(this, protocol, lbProps) ==
    IF Failed(this) \/ ~IsDef(lbProps.listeners) THEN this
    ELSE AlbListenerLoop(this, protocol, lbProps, 1)

EntryDomainName(this, lbProps) ==
    IF Failed(this) THEN this
    ELSE DomainNameCreated(createDomainName(this, this.loc.lb, lbProps.domainName, lbProps.domainZone))

AlbOutputDns(this) ==
    IF Failed(this) THEN this
    ELSE CfnOutput(this, "LoadBalancerDNS" \o NodeId(this.loc.lb), DnsName(this.loc.lb))

AlbOutputUrl(this, protocol) ==
    IF Failed(this) THEN this
    ELSE CfnOutput(this, "ServicURL" \o NodeId(this.loc.lb),
                   ToLower(protocol) \o "://" \o this.loc.domainName)

AlbLoadBalancerBody(this, props, lbProps) ==
    AlbOutputUrl(
        AlbOutputDns(
            EntryDomainName(
                AlbListeners(
                    LoadBalancerOfEntry(
                        createLoadBalancer(this, lbProps.name, lbProps.publicLoadBalancer,
                                           lbProps.loadBalancer)),
                    createListenerProtocol(props.protocol, props.certificate), lbProps),
                lbProps)),
        createListenerProtocol(props.protocol, props.certificate))

\* for (const lbProps of props.loadBalancers) { ... }, from its i-th element on
RECURSIVE AlbLoadBalancerLoop(_, _, _)
AlbLoadBalancerLoop(this, props, i) ==
    IF Failed(this) \/ i > Len(Val(props.loadBalancers)) THEN this
    ELSE AlbLoadBalancerLoop(AlbLoadBalancerBody(this, props, Val(props.loadBalancers)[i]),
                             props, i + 1)

AlbMultipleLoadBalancers(this, props) ==
    AssignFirstAdded(AlbLoadBalancerLoop(this, props, 1), TRUE)

\* this.listener = options.listener; this.certificate = options.certificate
AlbListenerAssigned(this) ==
    IF Failed(this) THEN this
    ELSE [this EXCEPT !.listener = this.ret.listener, !.certificate = this.ret.certificate]

AlbPublicListener(this, props) ==
    IF Failed(this) THEN this
    ELSE AlbListenerAssigned(
             configListener(this, createListenerProtocol(props.protocol, props.certificate),
                 [certificate  |-> props.certificate,
                  domainName   |-> props.domainName,
                  domainZone   |-> props.domainZone,
                  listenerName |-> "PublicListener",
                  loadBalancer |-> this.loadBalancer]))

AlbSingleDomainName(this, props) ==
    IF Failed(this) THEN this
    ELSE DomainNameCreated(createDomainName(this, this.loadBalancer, props.domainName, props.domainZone))

SingleOutputDns(this) ==
    IF Failed(this) THEN this
    ELSE CfnOutput(this, "LoadBalancerDNS", DnsName(this.loadBalancer))

AlbSingleOutputUrl(this, props) ==
    IF Failed(this) THEN this
    ELSE CfnOutput(this, "ServiceURL",
                   ToLower(createListenerProtocol(props.protocol, props.certificate))
                       \o "://" \o this.loc.domainName)

AlbSingleLoadBalancer(this, props) ==
    AlbSingleOutputUrl(
        SingleOutputDns(
            AlbSingleDomainName(
                AlbPublicListener(
                    LoadBalancerAssigned(
                        createLoadBalancer(this, "LB", props.publicLoadBalancer, props.loadBalancer)),
                    props),
                props)),
        props)

AlbLoadBalancers(this, props) ==
    IF Failed(this) THEN this
    ELSE IF IsDef(props.loadBalancers) THEN AlbMultipleLoadBalancers(this, props)
    ELSE AlbSingleLoadBalancer(this, props)

\* mutant: validateInput runs after the cluster has been set
ApplicationLoadBalancedServiceBase_ValidateLate(this, props) ==
    AlbLoadBalancers(SetDesiredCount(validateInput(SetCluster(this, props), props), props), props)

ApplicationLoadBalancedServiceBase(this, props) ==
    AlbLoadBalancers(SetDesiredCount(SetCluster(validateInput(this, props), props), props), props)

----------------------------------------------------------------------------
(* ApplicationLoadBalancedEc2Service *)

\* ContainerDefinition.findPortMapping(containerPort, protocol)
findPortMapping(container, containerPort, protocol) ==
    \E i \in DOMAIN container.portMappings :
        /\ container.portMappings[i].containerPort = containerPort
        /\ (IF container.portMappings[i].protocol # None
            THEN container.portMappings[i].protocol ELSE TCP) = protocol

\* ContainerDefinition.addPortMappings(mapping)
addPortMappings(container, mapping) ==
    [container EXCEPT !.portMappings = Append(@, mapping)]

\* taskDefinition.defaultContainer of a task definition passed in by the caller
DefaultContainerOf(this, taskDefinition) ==
    NodeAt(this, taskDefinition).props.defaultContainer

\* listener.addTargets(id, props): the target group is a child of the listener
addTargets(this, listener, id, props) ==
    AddChild(this, listener, id \o "Group", "ApplicationTargetGroup", props)

FirstNamed(listeners, name) ==
    CHOOSE k \in DOMAIN listeners :
        /\ listeners[k].name = name
        /\ \A m \in 1..(k - 1) : listeners[m].name # name

findListener(this, name) ==
    IF Failed(this) THEN this
    ELSE IF name = None \/ name = "" THEN Return(this, this.listener)
    ELSE IF \E i \in DOMAIN this.listeners : this.listeners[i].name = name
    THEN Return(this, this.listeners[FirstNamed(this.listeners, name)].listener)
    ELSE Throw(this, ErrListenerNotDefined)

\* mutant: the mapping is added without asking whether the container has it
PortMappingForTarget_AlwaysAdd(container, target) ==
    addPortMappings(container,
        [containerPort |-> target.containerPort, protocol |-> target.protocol])

\* the body of the loop of addPortMappingForTargets
PortMappingForTarget(container, target) ==
    IF ~findPortMapping(container, target.containerPort,
                        IF target.protocol # None THEN target.protocol ELSE TCP)
    THEN addPortMappings(container,
             [containerPort |-> target.containerPort, protocol |-> target.protocol])
    ELSE container

RECURSIVE PortMappingLoop(_, _, _)
PortMappingLoop(container, targets, i) ==
    IF i > Len(targets) THEN container
    ELSE PortMappingLoop(PortMappingForTarget(container, targets[i]), targets, i + 1)

addPortMappingForTargets(this, targets) ==
    IF Failed(this) THEN this
    ELSE [this EXCEPT !.defaultContainer = Some(PortMappingLoop(Val(@), targets, 1))]

\* const tg = this.findListener(targetProps.listener).addTargets(...)
TargetGroupOnListener(this, targetProps) ==
    IF Failed(this) THEN this
    ELSE addTargets(this, this.ret, "ECSTargetGroup" \o Val(this.defaultContainer).containerName,
             [port |-> 80,
              containerName |-> Val(this.defaultContainer).containerName,
              containerPort |-> targetProps.containerPort,
              protocol |-> targetProps.protocol,
              priority |-> targetProps.priority])

\* targetGroup = targetGroup || tg
TargetGroupKept(this) ==
    IF Failed(this) THEN this
    ELSE [this EXCEPT !.loc.targetGroup = IF @ # NoRef THEN @ ELSE this.ret]

\* for (const targetProps of targets) { ... }, from its i-th element on
RECURSIVE TargetLoop(_, _, _)
TargetLoop(this, targets, i) ==
    IF Failed(this) \/ i > Len(targets) THEN this
    ELSE TargetLoop(
             TargetGroupKept(TargetGroupOnListener(findListener(this, targets[i].listener), targets[i])),
             targets, i + 1)

\* if (!targetGroup) { throw } return targetGroup
FirstTargetGroup(this) ==
    IF Failed(this) THEN this
    ELSE IF this.loc.targetGroup = NoRef THEN Throw(this, ErrNoTargetGroup)
    ELSE Return(this, this.loc.targetGroup)

registerECSTargets(this, targets) ==
    FirstTargetGroup(TargetLoop(addPortMappingForTargets(this, targets), targets, 1))

\* this.service = this.createEc2Service(props)
ServiceAssigned(this) ==
    IF Failed(this) THEN this ELSE [this EXCEPT !.service = this.ret]

createEc2Service(this, props) ==
    IF Failed(this) THEN this
    ELSE ServiceAssigned(
             AddChild(this, this.path, "Service", "Ec2Service",
                      [cluster |-> this.cluster,
                       desiredCount |-> Val(this.desiredCount),
                       taskDefinition |-> this.taskDefinition,
                       assignPublicIp |-> FALSE]))

\* this.taskDefinition = new Ec2TaskDefinition(this, 'TaskDef', ...)
TaskDefinitionAssigned(this) ==
    IF Failed(this) THEN this ELSE [this EXCEPT !.taskDefinition = this.ret]

ContainerNameOf(taskImageOptions) ==
    IF taskImageOptions.containerName # None THEN taskImageOptions.containerName ELSE "web"

\* taskImageOptions.containerPort || 80
ContainerPortOf(taskImageOptions) ==
    IF IsDef(taskImageOptions.containerPort) /\ Val(taskImageOptions.containerPort) # 0
    THEN Val(taskImageOptions.containerPort) ELSE 80

\* const container = this.taskDefinition.addContainer(containerName, ...)
addContainer(this, containerName) ==
    IF Failed(this) THEN this
    ELSE AddChild(this, this.taskDefinition, containerName, "ContainerDefinition", [essential |-> TRUE])

\* container.addPortMappings({ containerPort: taskImageOptions.containerPort || 80 })
ContainerAdded(this, taskImageOptions) ==
    IF Failed(this) THEN this
    ELSE [this EXCEPT !.defaultContainer =
             Some(addPortMappings([containerName |-> ContainerNameOf(taskImageOptions), portMappings |-> <<>>],
                                  [containerPort |-> ContainerPortOf(taskImageOptions), protocol |-> None]))]

\* the branch of the constructor that builds the task definition from taskImageOptions
CreateTaskDefinition(this, taskImageOptions) ==
    ContainerAdded(
        addContainer(
            TaskDefinitionAssigned(
                AddChild(this, this.path, "TaskDef", "Ec2TaskDefinition", [compatibility |-> "EC2"])),
            ContainerNameOf(taskImageOptions)),
        taskImageOptions)

\* mutant: a given taskDefinition wins over taskImageOptions instead of being refused
SetTaskDefinition_PreferGiven(this, props) ==
    IF Failed(this) THEN this
    ELSE IF props.taskDefinition # NoRef
    THEN [this EXCEPT !.taskDefinition = props.taskDefinition,
                      !.defaultContainer = DefaultContainerOf(this, props.taskDefinition)]
    ELSE IF IsDef(props.taskImageOptions)
    THEN CreateTaskDefinition(this, Val(props.taskImageOptions))
    ELSE Throw(this, ErrNoTaskDef)

SetTaskDefinition(this, props) ==
    IF Failed(this) THEN this
    ELSE IF props.taskDefinition # NoRef /\ IsDef(props.taskImageOptions)
    THEN Throw(this, ErrBothTaskDef)
    ELSE IF props.taskDefinition # NoRef
    THEN [this EXCEPT !.taskDefinition = props.taskDefinition,
                      !.defaultContainer = DefaultContainerOf(this, props.taskDefinition)]
    ELSE IF IsDef(props.taskImageOptions)
    THEN CreateTaskDefinition(this, Val(props.taskImageOptions))
    ELSE Throw(this, ErrNoTaskDef)

\* this.targetGroup = ...
TargetGroupAssigned(this) ==
    IF Failed(this) THEN this ELSE [this EXCEPT !.targetGroup = this.ret]

SetTargetGroup(this, props) ==
    IF Failed(this) THEN this
    ELSE IF IsDef(this.defaultContainer) /\ IsDef(props.targetGroups)
    THEN TargetGroupAssigned(registerECSTargets(this, Val(props.targetGroups)))
    ELSE TargetGroupAssigned(addTargets(this, this.listener, "ECS", [port |-> 80, targets |-> this.service]))

ApplicationLoadBalancedEc2Service(this, props) ==
    SetTargetGroup(
        createEc2Service(
            SetTaskDefinition(ApplicationLoadBalancedServiceBase(this, props), props),
            props),
        props)

----------------------------------------------------------------------------
(* ApplicationMultipleTargetGroupsServiceBase *)

validateInputMulti(this, props) ==
    IF Failed(this) THEN this
    ELSE IF props.cluster # NoRef /\ props.vpc # NoRef
    THEN Throw(this, ErrVpcOrCluster)
    ELSE this

\* this.listeners.push(...); listenerTemp = listenerTemp || options.listener
MultiListenerAdded(this, listenerProps) ==
    IF Failed(this) THEN this
    ELSE [this EXCEPT !.listeners = Append(@, [name |-> listenerProps.name, listener |-> this.ret.listener]),
                      !.loc.listenerTemp = IF @ # NoRef THEN @ ELSE this.ret.listener]

MultiListenerBody(this, lbProps, listenerProps) ==
    MultiListenerAdded(
        configListener(this, createListenerProtocol(lbProps.protocol, listenerProps.certificate),
            [certificate  |-> listenerProps.certificate,
             domainName   |-> lbProps.domainName,
             domainZone   |-> lbProps.domainZone,
             listenerName |-> listenerProps.name,
             loadBalancer |-> this.loc.lb]),
        listenerProps)

\* for (const listenerProps of lbProps.listeners) { ... }, from its j-th element on
RECURSIVE MultiListenerLoop(_, _, _)
MultiListenerLoop(this, lbProps, j) ==
    IF Failed(this) \/ j > Len(Val(lbProps.listeners)) THEN this
    ELSE MultiListenerLoop(MultiListenerBody(this, lbProps, Val(lbProps.listeners)[j]),
                           lbProps, j + 1)

\* if (lbProps.listeners) { for ... }
MultiListeners(this, lbProps) ==
    IF Failed(this) \/ ~IsDef(lbProps.listeners) THEN this
    ELSE MultiListenerLoop(this, lbProps, 1)

MultiOutputDns(this) ==
    IF Failed(this) THEN this
    ELSE CfnOutput(this, "LoadBalancerDNS" \o NodeId(this.loc.lb), DnsName(this.loc.lb))

MultiOutputUrl(this, lbProps) ==
    IF Failed(this) THEN this
    ELSE CfnOutput(this, "ServiceURL" \o NodeId(this.loc.lb),
                   ToLower(IF lbProps.protocol # None THEN lbProps.protocol ELSE HTTP)
                       \o "://" \o this.loc.domainName)

MultiLoadBalancerBody(this, lbProps) ==
    MultiOutputUrl(
        MultiOutputDns(
            EntryDomainName(
                MultiListeners(
                    LoadBalancerOfEntry(
                        createLoadBalancer(this, lbProps.name, lbProps.publicLoadBalancer,
                                           lbProps.loadBalancer)),
                    lbProps),
                lbProps)),
        lbProps)

\* for (const lbProps of props.loadBalancers) { ... }, from its i-th element on
RECURSIVE MultiLoadBalancerLoop(_, _, _)
MultiLoadBalancerLoop(this, props, i) ==
    IF Failed(this) \/ i > Len(Val(props.loadBalancers)) THEN this
    ELSE MultiLoadBalancerLoop(MultiLoadBalancerBody(this, Val(props.loadBalancers)[i]),
                               props, i + 1)

MultiMultipleLoadBalancers(this, props) ==
    AssignFirstAdded(MultiLoadBalancerLoop(this, props, 1), FALSE)

\* this.listener = options.listener
MultiListenerAssigned(this) ==
    IF Failed(this) THEN this ELSE [this EXCEPT !.listener = this.ret.listener]

MultiPublicListener(this) ==
    IF Failed(this) THEN this
    ELSE MultiListenerAssigned(
             configListener(this, createListenerProtocol(None, NoRef),
                 [certificate  |-> NoRef,
                  domainName   |-> None,
                  domainZone   |-> NoRef,
                  listenerName |-> "PublicListener",
                  loadBalancer |-> this.loadBalancer]))

MultiSingleDomainName(this) ==
    IF Failed(this) THEN this
    ELSE DomainNameCreated(createDomainName(this, this.loadBalancer, None, NoRef))

MultiSingleOutputUrl(this) ==
    IF Failed(this) THEN this
    ELSE CfnOutput(this, "ServiceURL",
                   ToLower(createListenerProtocol(None, NoRef)) \o "://" \o this.loc.domainName)

MultiSingleLoadBalancer(this) ==
    MultiSingleOutputUrl(
        SingleOutputDns(
            MultiSingleDomainName(
                MultiPublicListener(
                    LoadBalancerAssigned(createLoadBalancer(this, "LB", None, NoRef))))))

MultiLoadBalancers(this, props) ==
    IF Failed(this) THEN this
    ELSE IF IsDef(props.loadBalancers) THEN MultiMultipleLoadBalancers(this, props)
    ELSE MultiSingleLoadBalancer(this)

ApplicationMultipleTargetGroupsServiceBase(this, props) ==
    MultiLoadBalancers(SetDesiredCount(SetCluster(validateInputMulti(this, props), props), props), props)

----------------------------------------------------------------------------
(* The constructs the caller made before it calls a constructor. *)

Vpc == StackPath \o <<"Vpc">>
EcsCluster == StackPath \o <<"EcsCluster">>
ExtLB == StackPath \o <<"ExtLB">>
Cert1 == StackPath \o <<"Cert1">>
Zone == StackPath \o <<"Zone">>
TaskDef0 == StackPath \o <<"TaskDef0">>
TaskDef1 == StackPath \o <<"TaskDef1">>

WebContainer ==
    [containerName |-> "web",
     portMappings |-> <<[containerPort |-> 80, protocol |-> TCP]>>]

InitialTree ==
    { [path |-> Vpc, kind |-> "Vpc", props |-> <<>>],
      [path |-> EcsCluster, kind |-> "Cluster", props |-> [vpc |-> Vpc]],
      [path |-> ExtLB, kind |-> "ApplicationLoadBalancer", props |-> [vpc |-> Vpc, internetFacing |-> "true"]],
      [path |-> Cert1, kind |-> "Certificate", props |-> <<>>],
      [path |-> Zone, kind |-> "HostedZone", props |-> <<>>],
      [path |-> TaskDef0, kind |-> "Ec2TaskDefinition", props |-> [defaultContainer |-> Undefined]],
      [path |-> TaskDef1, kind |-> "Ec2TaskDefinition", props |-> [defaultContainer |-> Some(WebContainer)]] }

----------------------------------------------------------------------------
(* Bounds and the props the constructors are called with. *)

MaxListeners == 2      \* longest listeners array of a load balancer entry
MaxLoadBalancers == 2  \* longest loadBalancers array
MaxTargets == 2        \* longest targetGroups array

SeqsUpTo(S, n) == UNION {[1..k -> S] : k \in 0..n}
SeqsFromTo(S, m, n) == UNION {[1..k -> S] : k \in m..n}

Clusters == {NoRef, EcsCluster}
Vpcs == {NoRef, Vpc}
Certificates == {NoRef, Cert1}
Protocols == {None, HTTP, HTTPS}
DomainNames == {None, "api.example.com"}
Zones == {NoRef, Zone}
LoadBalancers == {NoRef, ExtLB}
Booleans == {None, "true", "false"}
DesiredCounts == {Undefined, Some(0), Some(1), Some(2)}

DefaultImage == [containerName |-> None, containerPort |-> Undefined]
NamedImage == [containerName |-> "app", containerPort |-> Some(8080)]

\* ApplicationListenerProps of application-load-balanced-service-base.ts
AlbListenerProps == [name : {"L1", "L2"}, protocol : {None, HTTPS}, certificate : Certificates]

\* ApplicationLoadBalancerProps of application-load-balanced-service-base.ts
AlbLoadBalancerProps ==
    [name : {None, "LB1"},
     listeners : {Undefined} \cup {Some(ls) : ls \in SeqsUpTo(AlbListenerProps, MaxListeners)},
     publicLoadBalancer : {None}, domainName : DomainNames, domainZone : Zones,
     loadBalancer : LoadBalancers]

\* entries for the longer loadBalancers arrays: at most one listener, of default protocol
AlbShortLoadBalancerProps ==
    {e \in [name : {"LB1", "LB2"},
            listeners : {Undefined} \cup {Some(<<l>>) : l \in AlbListenerProps},
            publicLoadBalancer : {None}, domainName : DomainNames, domainZone : Zones,
            loadBalancer : LoadBalancers] :
        /\ (e.domainName = None) = (e.domainZone = NoRef)
        /\ IsDef(e.listeners) =>
              /\ Val(e.listeners)[1].protocol = None
              /\ Val(e.listeners)[1].certificate = NoRef}

ApplicationTargetProps ==
    [containerPort : {80, 8080}, protocol : {None, TCP, UDP}, listener : {None, "L2", "L3"},
     priority : {None}]

Ec2Defaults ==
    [cluster |-> NoRef, vpc |-> NoRef, taskImageOptions |-> Some(DefaultImage),
     publicLoadBalancer |-> None, desiredCount |-> Undefined, certificate |-> NoRef,
     protocol |-> None, domainName |-> None, domainZone |-> NoRef, loadBalancer |-> NoRef,
     loadBalancers |-> Undefined, targetGroups |-> Undefined, taskDefinition |-> NoRef]

\* one load balancer: the options validateInput and the listener read
Ec2SingleProps ==
    {[Ec2Defaults EXCEPT !.cluster = c, !.vpc = v, !.certificate = ce, !.protocol = pr,
                         !.domainName = dn, !.domainZone = dz, !.loadBalancer = lb,
                         !.taskDefinition = td, !.taskImageOptions = ti] :
        c \in Clusters, v \in Vpcs, ce \in Certificates, pr \in Protocols,
        dn \in DomainNames, dz \in Zones, lb \in LoadBalancers,
        td \in {NoRef, TaskDef1}, ti \in {Undefined, Some(DefaultImage)}}

\* one load balancer: the options that are passed through
Ec2PlainProps ==
    {[Ec2Defaults EXCEPT !.publicLoadBalancer = pb, !.desiredCount = dc, !.loadBalancer = lb,
                         !.taskImageOptions = Some(ti)] :
        pb \in Booleans, dc \in DesiredCounts, lb \in LoadBalancers,
        ti \in {DefaultImage, NamedImage}}

\* loadBalancers with one entry or none, every shape of entry
Ec2OneLoadBalancerProps ==
    {[Ec2Defaults EXCEPT !.certificate = ce, !.protocol = pr, !.loadBalancers = Some(lbs)] :
        ce \in Certificates, pr \in Protocols, lbs \in SeqsUpTo(AlbLoadBalancerProps, 1)}

\* loadBalancers with several entries
Ec2ManyLoadBalancersProps ==
    {[Ec2Defaults EXCEPT !.protocol = pr, !.loadBalancers = Some(lbs)] :
        pr \in {None, HTTPS},
        lbs \in SeqsFromTo(AlbShortLoadBalancerProps, 2, MaxLoadBalancers)}

\* entries that differ in what createLoadBalancer reads
AlbPublicLoadBalancerProps ==
    [name : {None, "LB1", "LB2"},
     listeners : {Some(<<[name |-> "L1", protocol |-> None, certificate |-> NoRef]>>)},
     publicLoadBalancer : Booleans, domainName : {None}, domainZone : {NoRef},
     loadBalancer : LoadBalancers]

\* loadBalancers, new and supplied, public and internal
Ec2PublicLoadBalancersProps ==
    {[Ec2Defaults EXCEPT !.cluster = c, !.loadBalancers = Some(lbs)] :
        c \in Clusters, lbs \in SeqsFromTo(AlbPublicLoadBalancerProps, 1, MaxLoadBalancers)}

TwoListeners ==
    <<[name |-> "LB1",
       listeners |-> Some(<<[name |-> "L1", protocol |-> None, certificate |-> NoRef],
                            [name |-> "L2", protocol |-> None, certificate |-> NoRef]>>),
       publicLoadBalancer |-> None, domainName |-> None, domainZone |-> NoRef,
       loadBalancer |-> NoRef]>>

\* where the task definition comes from: props.taskDefinition, props.taskImageOptions
TaskSources ==
    {<<TaskDef0, Undefined>>, <<TaskDef1, Undefined>>, <<NoRef, Some(DefaultImage)>>}

\* targetGroups, on a task definition passed in or made from taskImageOptions
Ec2TargetGroupsProps ==
    {[Ec2Defaults EXCEPT !.taskDefinition = ts[1], !.taskImageOptions = ts[2],
                         !.loadBalancers = lbs, !.targetGroups = Some(tgs)] :
        ts \in TaskSources, lbs \in {Undefined, Some(TwoListeners)},
        tgs \in SeqsUpTo(ApplicationTargetProps, MaxTargets)}

\* ApplicationListenerProps of application-multiple-target-groups-service-base.ts
MultiListenerProps == [name : {"L1", "L2"}, certificate : Certificates]

\* ApplicationLoadBalancerProps of application-multiple-target-groups-service-base.ts
MultiLoadBalancerProps ==
    [name : {None, "LB1"},
     listeners : {Undefined} \cup {Some(ls) : ls \in SeqsUpTo(MultiListenerProps, MaxListeners)},
     publicLoadBalancer : {None}, protocol : Protocols, domainName : DomainNames, domainZone : Zones,
     loadBalancer : LoadBalancers]

\* entries for the longer loadBalancers arrays: at most one listener
MultiShortLoadBalancerProps ==
    {e \in [name : {"LB1", "LB2"},
            listeners : {Undefined} \cup {Some(<<l>>) : l \in MultiListenerProps},
            publicLoadBalancer : {None}, protocol : {None}, domainName : DomainNames, domainZone : Zones,
            loadBalancer : LoadBalancers] :
        /\ (e.domainName = None) = (e.domainZone = NoRef)
        /\ IsDef(e.listeners) => Val(e.listeners)[1].certificate = NoRef}

\* entries that differ in what createLoadBalancer reads
MultiPublicLoadBalancerProps ==
    [name : {None, "LB1", "LB2"},
     listeners : {Some(<<[name |-> "L1", certificate |-> NoRef]>>)},
     publicLoadBalancer : Booleans, protocol : {None}, domainName : {None}, domainZone : {NoRef},
     loadBalancer : LoadBalancers]

MultiDefaults ==
    [cluster |-> NoRef, vpc |-> NoRef, desiredCount |-> Undefined, loadBalancers |-> Undefined]

\* no loadBalancers
MultiSingleProps ==
    {[MultiDefaults EXCEPT !.cluster = c, !.vpc = v, !.desiredCount = dc] :
        c \in Clusters, v \in Vpcs, dc \in DesiredCounts}

\* loadBalancers with one entry or none, every shape of entry
MultiOneLoadBalancerProps ==
    {[MultiDefaults EXCEPT !.cluster = c, !.vpc = v, !.loadBalancers = Some(lbs)] :
        c \in Clusters, v \in Vpcs, lbs \in SeqsUpTo(MultiLoadBalancerProps, 1)}

\* loadBalancers with several entries
MultiManyLoadBalancersProps ==
    {[MultiDefaults EXCEPT !.loadBalancers = Some(lbs)] :
        lbs \in SeqsFromTo(MultiShortLoadBalancerProps, 2, MaxLoadBalancers)}

\* loadBalancers, new and supplied, public and internal
MultiPublicLoadBalancersProps ==
    {[MultiDefaults EXCEPT !.cluster = c, !.loadBalancers = Some(lbs)] :
        c \in Clusters, lbs \in SeqsFromTo(MultiPublicLoadBalancerProps, 1, MaxLoadBalancers)}

----------------------------------------------------------------------------
(* The state machine: one constructor call on a stack. *)

NoService == [class |-> "none", props |-> <<>>, this |-> <<>>]

\* super(scope, id): the new construct becomes a child of its scope
Super(pre, id) ==
    LET this == NewThis(pre, id)
    IN IF Exists(this, this.path) THEN Throw(this, ErrDuplicateId) ELSE this

\* the object as the caller sees it: the locals of the call are gone
Finished(this) == [this EXCEPT !.ret = NoRef, !.loc = NoLocals]

TreeAfter(this) ==
    Nodes(this) \cup {[path |-> this.path, kind |-> "Construct", props |-> <<>>]}

Init ==
    /\ pc = "start"
    /\ tree = InitialTree
    /\ svc = NoService

\* new ApplicationLoadBalancedEc2Service(stack, id, props)
NewApplicationLoadBalancedEc2Service(id, props) ==
    LET this == ApplicationLoadBalancedEc2Service(Super(tree, id), props)
    IN /\ svc' = [class |-> "ApplicationLoadBalancedEc2Service", props |-> props,
                  this |-> Finished(this)]
       /\ tree' = TreeAfter(this)
       /\ pc' = "done"

\* new X(stack, id, props), X a class that adds nothing to the constructor of
\* ApplicationMultipleTargetGroupsServiceBase
NewApplicationMultipleTargetGroupsService(id, props) ==
    LET this == ApplicationMultipleTargetGroupsServiceBase(Super(tree, id), props)
    IN /\ svc' = [class |-> "ApplicationMultipleTargetGroupsServiceBase", props |-> props,
                  this |-> Finished(this)]
       /\ tree' = TreeAfter(this)
       /\ pc' = "done"

ConstructEc2 ==
    /\ pc = "start"
    /\ \/ \E props \in Ec2SingleProps : NewApplicationLoadBalancedEc2Service("Svc", props)
       \/ \E props \in Ec2PlainProps : NewApplicationLoadBalancedEc2Service("Svc", props)
       \/ \E props \in Ec2OneLoadBalancerProps : NewApplicationLoadBalancedEc2Service("Svc", props)
       \/ \E props \in Ec2ManyLoadBalancersProps : NewApplicationLoadBalancedEc2Service("Svc", props)
       \/ \E props \in Ec2TargetGroupsProps : NewApplicationLoadBalancedEc2Service("Svc", props)
       \/ \E props \in Ec2PublicLoadBalancersProps : NewApplicationLoadBalancedEc2Service("Svc", props)

ConstructMulti ==
    /\ pc = "start"
    /\ \/ \E props \in MultiSingleProps : NewApplicationMultipleTargetGroupsService("Svc", props)
       \/ \E props \in MultiOneLoadBalancerProps : NewApplicationMultipleTargetGroupsService("Svc", props)
       \/ \E props \in MultiManyLoadBalancersProps : NewApplicationMultipleTargetGroupsService("Svc", props)
       \/ \E props \in MultiPublicLoadBalancersProps : NewApplicationMultipleTargetGroupsService("Svc", props)

Next == ConstructEc2 \/ ConstructMulti

Spec == Init /\ [][Next]_vars

----------------------------------------------------------------------------
(* Several constructor calls, one after the other, on one stack. *)

MaxServices == 3       \* most services constructed on the stack

\* a second vpc of the stack, in another scope, whose id is that of Vpc
Vpc2 == <<"Stack", "Net", "Vpc">>

StackInitialTree ==
    InitialTree \cup {[path |-> Vpc2, kind |-> "Vpc", props |-> <<>>]}

\* the services constructed on the stack so far
Services == {n \in tree : n.kind = "Construct"}

\* the id of the next service
NextId == "Svc" \o ToString(Cardinality(Services) + 1)

StackEc2Props ==
    {[Ec2Defaults EXCEPT !.cluster = c, !.vpc = v, !.loadBalancer = lb] :
        c \in Clusters, v \in Vpcs \cup {Vpc2}, lb \in LoadBalancers}

StackMultiProps ==
    {[MultiDefaults EXCEPT !.cluster = c, !.vpc = v] : c \in Clusters, v \in Vpcs \cup {Vpc2}}

StackInit ==
    /\ pc = "start"
    /\ tree = StackInitialTree
    /\ svc = NoService

StackConstructEc2 ==
    /\ Cardinality(Services) < MaxServices
    /\ \E props \in StackEc2Props : NewApplicationLoadBalancedEc2Service(NextId, props)

StackConstructMulti ==
    /\ Cardinality(Services) < MaxServices
    /\ \E props \in StackMultiProps : NewApplicationMultipleTargetGroupsService(NextId, props)

StackNext == StackConstructEc2 \/ StackConstructMulti

SpecStack == StackInit /\ [][StackNext]_vars

----------------------------------------------------------------------------
(* What the claims speak of. *)

Done == pc = "done"
This == svc.this
Props == svc.props
IsEc2 == svc.class = "ApplicationLoadBalancedEc2Service"
IsMulti == svc.class = "ApplicationMultipleTargetGroupsServiceBase"
Threw == This.error # None

\* the constructs the constructor call created
CreatedNodes == {This.nodes[i] : i \in DOMAIN This.nodes}
CreatedOfKind(kind) == {n \in CreatedNodes : n.kind = kind}

BothClusterAndVpc == Props.cluster # NoRef /\ Props.vpc # NoRef
CertificateWithoutHttps ==
    IsEc2 /\ Props.certificate # NoRef /\ Props.protocol # None /\ Props.protocol # HTTPS

\* the errors the base class constructors raise
BaseErrors ==
    {ErrVpcOrCluster, ErrCertNeedsHttps, ErrNoLoadBalancer, ErrNoListener, ErrLbName,
     ErrDomainForHttps, ErrZoneForDomain, ErrDuplicateId}

\* the validation errors of the three constructors
ValidationErrors ==
    {ErrVpcOrCluster, ErrCertNeedsHttps, ErrBothTaskDef, ErrNoTaskDef, ErrNoLoadBalancer,
     ErrNoListener, ErrLbName, ErrDomainForHttps, ErrZoneForDomain, ErrNoTargetGroup}

\* the load balancer of an entry of props.loadBalancers
LbPathOf(entry) ==
    IF entry.loadBalancer # NoRef THEN entry.loadBalancer ELSE This.path \o <<entry.name>>

HasListeners(entry) == IsDef(entry.listeners) /\ Len(Val(entry.listeners)) > 0

\* the protocol a listener entry asks for by itself
OwnProtocol(protocol, certificate) ==
    IF protocol # None THEN protocol ELSE IF certificate # NoRef THEN HTTPS ELSE HTTP

----------------------------------------------------------------------------
\* C1: in both base classes, props with both cluster and vpc make the
\* constructor throw 'You can only specify either vpc or cluster', and at that
\* point no cluster, load balancer, listener, DNS record or output exists yet.
C1_VpcOrClusterFirst ==
    (Done /\ BothClusterAndVpc) =>
        /\ This.error = ErrVpcOrCluster
        /\ This.nodes = <<>>
        /\ This.cluster = NoRef

C1_Witness ==
    Done /\ IsEc2 /\ BothClusterAndVpc /\ This.error = ErrVpcOrCluster

\* C2: ApplicationLoadBalancedEc2Service wants exactly one of taskDefinition
\* and taskImageOptions: with both or with neither the constructor throws;
\* with taskDefinition alone the exposed taskDefinition is that object and no
\* task definition is created; with taskImageOptions alone a task definition
\* 'TaskDef' with one container is created and exposed.
C2_TaskDefinitionXorImage ==
    (Done /\ IsEc2) =>
        LET td == Props.taskDefinition # NoRef
            ti == IsDef(Props.taskImageOptions)
            baseOk == This.error \notin BaseErrors
        IN /\ (td /\ ti) =>
                /\ Threw
                /\ baseOk => This.error = ErrBothTaskDef
                /\ This.taskDefinition = NoRef
           /\ (~td /\ ~ti) =>
                /\ Threw
                /\ baseOk => This.error = ErrNoTaskDef
                /\ This.taskDefinition = NoRef
           /\ (td /\ ~ti /\ baseOk) =>
                /\ This.taskDefinition = Props.taskDefinition
                /\ CreatedOfKind("Ec2TaskDefinition") = {}
           /\ (~td /\ ti /\ baseOk) =>
                /\ This.taskDefinition = This.path \o <<"TaskDef">>
                /\ {n.path : n \in CreatedOfKind("Ec2TaskDefinition")} = {This.taskDefinition}
                /\ Cardinality({n \in CreatedOfKind("ContainerDefinition") :
                                   ScopeOf(n.path) = This.taskDefinition}) = 1

C2_Witness ==
    /\ Done /\ IsEc2 /\ ~Threw
    /\ Props.taskDefinition = NoRef /\ IsDef(Props.taskImageOptions)
    /\ This.taskDefinition = This.path \o <<"TaskDef">>

\* C3 as stated: whenever the constructor throws a validation error, it has
\* added no child construct.
C3_NoChildOnValidationError ==
    (Done /\ This.error \in ValidationErrors) => This.nodes = <<>>

\* C3 amended: the errors of validateInput are thrown before any construct is
\* created; the task definition errors of ApplicationLoadBalancedEc2Service are
\* thrown before the task definition, the service and the target group exist.
C3_ValidateInputBeforeChildren ==
    Done =>
        /\ This.error \in {ErrVpcOrCluster, ErrCertNeedsHttps} =>
              /\ This.nodes = <<>>
              /\ This.cluster = NoRef
        /\ This.error \in {ErrBothTaskDef, ErrNoTaskDef} =>
              /\ CreatedOfKind("Ec2TaskDefinition") = {}
              /\ CreatedOfKind("Ec2Service") = {}
              /\ CreatedOfKind("ApplicationTargetGroup") = {}
              /\ This.service = NoRef

C3_Witness ==
    Done /\ This.error = ErrCertNeedsHttps /\ This.nodes = <<>>

\* C4 as stated: a certificate with an explicit protocol other than HTTPS makes
\* the constructor throw 'The HTTPS protocol must be used when a certificate
\* is given'.
C4_CertificateNeedsHttps ==
    (Done /\ CertificateWithoutHttps) => This.error = ErrCertNeedsHttps

\* C4 amended: a certificate with an explicit protocol other than HTTPS makes
\* the constructor throw, with or without loadBalancers: the certificate error,
\* unless cluster and vpc are both given, which is checked first.
C4_CertificateNeedsHttpsAfterClusterCheck ==
    (Done /\ CertificateWithoutHttps) =>
        /\ This.nodes = <<>>
        /\ This.error = IF BothClusterAndVpc THEN ErrVpcOrCluster ELSE ErrCertNeedsHttps

C4_Witness ==
    /\ Done /\ CertificateWithoutHttps /\ IsDef(Props.loadBalancers)
    /\ This.error = ErrCertNeedsHttps

\* C5: without props.loadBalancers the one listener, 'PublicListener', has the
\* protocol props.protocol when given, else HTTPS when props.certificate is
\* given, else HTTP.
C5_SingleListenerProtocol ==
    (Done /\ IsEc2 /\ ~IsDef(Props.loadBalancers)) =>
        /\ \A n \in CreatedOfKind("ApplicationListener") :
              /\ NodeId(n.path) = "PublicListener"
              /\ n.props.protocol =
                    IF Props.protocol # None THEN Props.protocol
                    ELSE IF Props.certificate # NoRef THEN HTTPS ELSE HTTP
        /\ ~Threw => This.listener \in {n.path : n \in CreatedOfKind("ApplicationListener")}

C5_Witness ==
    /\ Done /\ IsEc2 /\ ~IsDef(Props.loadBalancers) /\ ~Threw
    /\ Props.protocol = None /\ Props.certificate # NoRef
    /\ \E n \in CreatedOfKind("ApplicationListener") :
          n.path = This.listener /\ n.props.protocol = HTTPS

\* the listener entries of props, each with the path of its listener and
\* with what configListener is given for it
ListenerEntries ==
    IF IsDef(Props.loadBalancers)
    THEN LET lbs == Val(Props.loadBalancers)
         IN { [i |-> i, j |-> j,
               path |-> LbPathOf(lbs[i]) \o <<Val(lbs[i].listeners)[j].name>>,
               certificate |-> Val(lbs[i].listeners)[j].certificate,
               domainName |-> lbs[i].domainName,
               domainZone |-> lbs[i].domainZone] :
              <<i, j>> \in { ij \in (DOMAIN lbs) \X (1..(MaxListeners + 1)) :
                               /\ IsDef(lbs[ij[1]].listeners)
                               /\ ij[2] \in DOMAIN Val(lbs[ij[1]].listeners) } }
    ELSE { [i |-> 1, j |-> 1,
            path |-> (IF IsEc2 /\ Props.loadBalancer # NoRef
                      THEN Props.loadBalancer ELSE This.path \o <<"LB">>) \o <<"PublicListener">>,
            certificate |-> IF IsEc2 THEN Props.certificate ELSE NoRef,
            domainName |-> IF IsEc2 THEN Props.domainName ELSE None,
            domainZone |-> IF IsEc2 THEN Props.domainZone ELSE NoRef] }

\* the entry a created listener was created for: the first one with its path
CreatorOf(n) ==
    CHOOSE e \in ListenerEntries :
        /\ e.path = n.path
        /\ \A f \in ListenerEntries :
              f.path = n.path => (e.i < f.i \/ (e.i = f.i /\ e.j <= f.j))

\* C6 as stated: with props.loadBalancers, every listener of
\* ApplicationLoadBalancedServiceBase has the protocol of its own
\* ApplicationListenerProps: its protocol when given, else HTTPS when it has a
\* certificate, else HTTP.
C6_ListenerOwnProtocol ==
    (Done /\ IsEc2 /\ IsDef(Props.loadBalancers) /\ ~Threw) =>
        \A i \in DOMAIN Val(Props.loadBalancers) :
            LET lbProps == Val(Props.loadBalancers)[i]
            IN HasListeners(lbProps) =>
                 \A j \in DOMAIN Val(lbProps.listeners) :
                    LET listenerProps == Val(lbProps.listeners)[j]
                    IN \A n \in CreatedOfKind("ApplicationListener") :
                          n.path = LbPathOf(lbProps) \o <<listenerProps.name>> =>
                             n.props.protocol =
                                OwnProtocol(listenerProps.protocol, listenerProps.certificate)

\* C7 as stated: in ApplicationMultipleTargetGroupsServiceBase, the listener
\* created for a listener entry that has a certificate has the protocol HTTPS.
C7_CertificateMakesHttps ==
    (Done /\ IsMulti /\ IsDef(Props.loadBalancers) /\ ~Threw) =>
        \A n \in CreatedOfKind("ApplicationListener") :
            CreatorOf(n).certificate # NoRef => n.props.protocol = HTTPS

\* C8 as stated: an HTTPS listener needs a domain name and a zone, without them
\* the constructor throws 'A domain name and zone is required when using the
\* HTTPS protocol'; with them it gets exactly one certificate, the one given or
\* a new DNS-validated one; a listener of another protocol gets none.
C8_HttpsListenerCertificate ==
    Done =>
        \A n \in CreatedOfKind("ApplicationListener") :
            IF n.props.protocol # HTTPS
            THEN n.props.certificateArns = <<>>
            ELSE IF CreatorOf(n).domainName = None \/ CreatorOf(n).domainZone = NoRef
            THEN This.error = ErrDomainForHttps /\ n.props.certificateArns = <<>>
            ELSE IF CreatorOf(n).certificate # NoRef
            THEN n.props.certificateArns = <<CreatorOf(n).certificate>>
            ELSE /\ Len(n.props.certificateArns) = 1
                 /\ \E c \in CreatedOfKind("DnsValidatedCertificate") :
                       /\ n.props.certificateArns = <<c.path>>
                       /\ c.props.domainName = CreatorOf(n).domainName
                       /\ c.props.hostedZone = CreatorOf(n).domainZone

\* C9 as stated: an empty props.loadBalancers makes the constructor throw 'At
\* least one load balancer should be specified', a non-empty one without any
\* listener 'At least one listener should be specified'.
C9_AtLeastOne ==
    (Done /\ IsDef(Props.loadBalancers)) =>
        /\ Len(Val(Props.loadBalancers)) = 0 => This.error = ErrNoLoadBalancer
        /\ (/\ Len(Val(Props.loadBalancers)) > 0
            /\ \A k \in DOMAIN Val(Props.loadBalancers) : ~HasListeners(Val(Props.loadBalancers)[k]))
              => This.error = ErrNoListener

\* every entry of props.loadBalancers has been processed: its two outputs exist
AllEntriesProcessed ==
    Cardinality(CreatedOfKind("CfnOutput")) = 2 * Len(Val(Props.loadBalancers))

\* C9 amended: an empty props.loadBalancers makes the constructor throw 'At
\* least one load balancer should be specified' unless validateInput throws
\* first; a non-empty one without any listener always makes it throw, and 'At
\* least one listener should be specified' exactly when every entry has been
\* processed without an error.
C9_AtLeastOneAfterEarlierSteps ==
    (Done /\ IsDef(Props.loadBalancers)) =>
        /\ Len(Val(Props.loadBalancers)) = 0 =>
              This.error = IF BothClusterAndVpc THEN ErrVpcOrCluster
                           ELSE IF CertificateWithoutHttps THEN ErrCertNeedsHttps
                           ELSE ErrNoLoadBalancer
        /\ (/\ Len(Val(Props.loadBalancers)) > 0
            /\ \A k \in DOMAIN Val(Props.loadBalancers) : ~HasListeners(Val(Props.loadBalancers)[k]))
              => /\ Threw
                 /\ This.listener = NoRef
                 /\ This.error = ErrNoListener <=> AllEntriesProcessed

C9_Witness ==
    /\ Done /\ IsDef(Props.loadBalancers)
    /\ Len(Val(Props.loadBalancers)) = 2
    /\ \A k \in DOMAIN Val(Props.loadBalancers) : ~HasListeners(Val(Props.loadBalancers)[k])
    /\ This.error = ErrNoListener

\* C10: with props.loadBalancers, after a successful construction the exposed
\* loadBalancer is the load balancer of the first entry, and the exposed
\* listener is the first listener of the first entry that has listeners.
C10_FirstAdded ==
    (Done /\ ~Threw /\ IsDef(Props.loadBalancers)) =>
        LET lbs == Val(Props.loadBalancers)
        IN /\ Len(lbs) > 0
           /\ This.loadBalancer = LbPathOf(lbs[1])
           /\ \E k \in DOMAIN lbs :
                 /\ HasListeners(lbs[k])
                 /\ \A m \in 1..(k - 1) : ~HasListeners(lbs[m])
                 /\ This.listener = LbPathOf(lbs[k]) \o <<Val(lbs[k].listeners)[1].name>>
                 /\ This.listener \in {n.path : n \in CreatedOfKind("ApplicationListener")}

C10_Witness ==
    /\ Done /\ ~Threw /\ IsDef(Props.loadBalancers)
    /\ Len(Val(Props.loadBalancers)) = 2
    /\ ~HasListeners(Val(Props.loadBalancers)[1])
    /\ HasListeners(Val(Props.loadBalancers)[2])
    /\ LbPathOf(Val(Props.loadBalancers)[1]) # LbPathOf(Val(Props.loadBalancers)[2])
    /\ This.loadBalancer = LbPathOf(Val(Props.loadBalancers)[1])
    /\ ScopeOf(This.listener) = LbPathOf(Val(Props.loadBalancers)[2])

\* the listeners the constructor call created that have a certificate attached,
\* by their place in the order of creation
ListenersWithCertificate ==
    {i \in DOMAIN This.nodes :
        /\ This.nodes[i].kind = "ApplicationListener"
        /\ This.nodes[i].props.certificateArns # <<>>}

\* the certificate attached to the first listener created with a certificate
FirstAddedCertificate ==
    IF ListenersWithCertificate = {} THEN NoRef
    ELSE This.nodes[CHOOSE i \in ListenersWithCertificate :
                        \A k \in ListenersWithCertificate : i <= k].props.certificateArns[1]

\* C11 as stated: after a successful construction of
\* ApplicationLoadBalancedServiceBase with props.loadBalancers, the exposed
\* certificate is the first added one: the certificate attached to the first
\* listener that was created with a certificate.
C11_FirstAddedCertificate ==
    (Done /\ IsEc2 /\ ~Threw /\ IsDef(Props.loadBalancers)) =>
        This.certificate = FirstAddedCertificate

\* C12 as stated: the listeners of an entry of props.loadBalancers that
\* supplies an existing loadBalancer are ignored: no listener is created on that
\* load balancer and none of its listener names is registered.
C12_SuppliedLoadBalancerListenersIgnored ==
    (Done /\ IsDef(Props.loadBalancers)) =>
        \A i \in DOMAIN Val(Props.loadBalancers) :
            Val(Props.loadBalancers)[i].loadBalancer # NoRef =>
                /\ \A n \in CreatedOfKind("ApplicationListener") :
                      ScopeOf(n.path) # Val(Props.loadBalancers)[i].loadBalancer
                /\ \A k \in DOMAIN This.listeners :
                      ScopeOf(This.listeners[k].listener) # Val(Props.loadBalancers)[i].loadBalancer

\* the calls of createLoadBalancer a construction makes when none throws:
\* its arguments name, publicLoadBalancer, loadBalancer
LoadBalancerCalls ==
    IF IsDef(Props.loadBalancers)
    THEN [i \in DOMAIN Val(Props.loadBalancers) |->
            [name |-> Val(Props.loadBalancers)[i].name,
             publicLoadBalancer |-> Val(Props.loadBalancers)[i].publicLoadBalancer,
             loadBalancer |-> Val(Props.loadBalancers)[i].loadBalancer]]
    ELSE <<[name |-> "LB",
            publicLoadBalancer |-> IF IsEc2 THEN Props.publicLoadBalancer ELSE None,
            loadBalancer |-> IF IsEc2 THEN Props.loadBalancer ELSE NoRef]>>

\* the calls that are to create a load balancer
CreatingCalls == {i \in DOMAIN LoadBalancerCalls : LoadBalancerCalls[i].loadBalancer = NoRef}

\* the call that created a load balancer: the first one to create with its name
LoadBalancerCreator(n) ==
    CHOOSE i \in CreatingCalls :
        /\ LoadBalancerCalls[i].name = NodeId(n.path)
        /\ \A k \in CreatingCalls : LoadBalancerCalls[k].name = NodeId(n.path) => i <= k

\* C13: createLoadBalancer returns a supplied loadBalancer as it is and creates
\* none, whatever name and publicLoadBalancer are; without one it throws 'Name
\* of the new load balancer is required.' when the name is missing, and with a
\* name creates a load balancer in the vpc of this.cluster that is
\* internet-facing exactly when publicLoadBalancer is true or not given.
C13_CreateLoadBalancer ==
    (Done /\ This.error \notin {ErrVpcOrCluster, ErrCertNeedsHttps}) =>
        /\ \A n \in CreatedOfKind("ApplicationLoadBalancer") :
              /\ ScopeOf(n.path) = This.path
              /\ \E i \in CreatingCalls : LoadBalancerCalls[i].name = NodeId(n.path)
              /\ n.props.vpc = ClusterVpc(This, This.cluster)
              /\ (n.props.internetFacing = "true") <=>
                    (LoadBalancerCalls[LoadBalancerCreator(n)].publicLoadBalancer \in {None, "true"})
              /\ n.props.internetFacing \in {"true", "false"}
        /\ This.error = ErrLbName =>
              /\ \E i \in CreatingCalls : LoadBalancerCalls[i].name = None
              /\ \A i \in CreatingCalls :
                    (\A k \in CreatingCalls : LoadBalancerCalls[k].name = None => i < k)
                        => \E n \in CreatedOfKind("ApplicationLoadBalancer") :
                              n.path = This.path \o <<LoadBalancerCalls[i].name>>
        /\ (\E i \in CreatingCalls : LoadBalancerCalls[i].name = None) => Threw
        /\ ~Threw =>
              /\ {n.path : n \in CreatedOfKind("ApplicationLoadBalancer")} =
                    {This.path \o <<LoadBalancerCalls[i].name>> : i \in CreatingCalls}
              /\ This.loadBalancer =
                    IF LoadBalancerCalls[1].loadBalancer # NoRef
                    THEN LoadBalancerCalls[1].loadBalancer
                    ELSE This.path \o <<LoadBalancerCalls[1].name>>
        /\ \A n \in InitialTree : n \in tree

C13_Witness ==
    /\ Done /\ ~Threw /\ IsDef(Props.loadBalancers)
    /\ Len(LoadBalancerCalls) = 2
    /\ LoadBalancerCalls[1].loadBalancer # NoRef
    /\ LoadBalancerCalls[1].name = None
    /\ LoadBalancerCalls[1].publicLoadBalancer = "false"
    /\ LoadBalancerCalls[2].loadBalancer = NoRef
    /\ LoadBalancerCalls[2].publicLoadBalancer = "false"
    /\ \E n \in CreatedOfKind("ApplicationLoadBalancer") :
          /\ n.path = This.path \o <<LoadBalancerCalls[2].name>>
          /\ n.props.internetFacing = "false"
          /\ n.props.vpc = ClusterVpc(This, This.cluster)

\* C14 as stated: the exposed desiredCount is props.desiredCount for every
\* value supplied, 0 too, and 1 when none is supplied; the ECS service is
\* created with the same desiredCount.
C14_DesiredCount ==
    (Done /\ ~Threw) =>
        /\ This.desiredCount =
              IF IsDef(Props.desiredCount) THEN Props.desiredCount ELSE Some(1)
        /\ \A n \in CreatedOfKind("Ec2Service") : n.props.desiredCount = Val(This.desiredCount)

\* the default cluster of the stack for the vpc of props
DefaultClusterPath == StackPath \o <<DefaultClusterId(Props.vpc)>>

\* validateInput has let the props through
Validated == Done /\ ~BothClusterAndVpc /\ ~CertificateWithoutHttps

FreshResult ==
    IF IsEc2
    THEN Finished(ApplicationLoadBalancedEc2Service(
                      Super(StackInitialTree, NodeId(This.path)), Props))
    ELSE Finished(ApplicationMultipleTargetGroupsServiceBase(
                      Super(StackInitialTree, NodeId(This.path)), Props))

\* the fields a construction exposes, and its error
Exposed(this) == [this EXCEPT !.pre = {}, !.nodes = <<>>]

SuppliesLoadBalancer ==
    \/ IsEc2 /\ Props.loadBalancer # NoRef
    \/ /\ IsDef(Props.loadBalancers)
       /\ \E i \in DOMAIN Val(Props.loadBalancers) : Val(Props.loadBalancers)[i].loadBalancer # NoRef

\* the constructs of a call other than the default cluster, without the vpc
\* of the load balancers
OwnConstructs(this) ==
    [i \in DOMAIN SelectSeq(this.nodes, LAMBDA n : n.path # DefaultClusterPath) |->
        IF SelectSeq(this.nodes, LAMBDA n : n.path # DefaultClusterPath)[i].kind
              = "ApplicationLoadBalancer"
        THEN [SelectSeq(this.nodes, LAMBDA n : n.path # DefaultClusterPath)[i]
                 EXCEPT !.props.vpc = NoRef]
        ELSE SelectSeq(this.nodes, LAMBDA n : n.path # DefaultClusterPath)[i]]

PortMappingsAdded ==
    /\ Done /\ IsEc2
    /\ CreatedOfKind("Ec2Service") # {}
    /\ IsDef(Props.targetGroups)
    /\ IsDef(This.defaultContainer)

\* the port mappings of the container before and after, and the targets
MappingsBefore ==
    IF Props.taskDefinition # NoRef
    THEN Val(DefaultContainerOf(This, Props.taskDefinition)).portMappings
    ELSE <<[containerPort |-> ContainerPortOf(Val(Props.taskImageOptions)), protocol |-> None]>>
MappingsAfter == Val(This.defaultContainer).portMappings
Targets == Val(Props.targetGroups)

\* the pair a mapping or a target stands for: its port, and its protocol or TCP
PortPair(m) == <<m.containerPort, IF m.protocol # None THEN m.protocol ELSE TCP>>

\* C17: after addPortMappingForTargets the container has a port mapping for
\* the pair (containerPort, protocol or TCP) of every target; a mapping is
\* added only for a pair the container has none for, so that a pair mapped
\* before or repeated among the targets is mapped once; the mappings the
\* container had are left as they were.
C17_PortMappingForTargets ==
    PortMappingsAdded =>
        /\ \A k \in DOMAIN Targets :
              Cardinality({i \in DOMAIN MappingsAfter :
                              PortPair(MappingsAfter[i]) = PortPair(Targets[k])}) = 1
        /\ Len(MappingsAfter) >= Len(MappingsBefore)
        /\ SubSeq(MappingsAfter, 1, Len(MappingsBefore)) = MappingsBefore
        /\ \A i \in (Len(MappingsBefore) + 1)..Len(MappingsAfter) :
              /\ \E k \in DOMAIN Targets :
                    MappingsAfter[i] = [containerPort |-> Targets[k].containerPort,
                                        protocol |-> Targets[k].protocol]
              /\ \A h \in 1..(i - 1) : PortPair(MappingsAfter[h]) # PortPair(MappingsAfter[i])

C17_Witness ==
    /\ PortMappingsAdded
    /\ Len(Targets) = 2
    /\ PortPair(Targets[1]) = PortPair(Targets[2])
    /\ Targets[1].protocol # Targets[2].protocol
    /\ \A i \in DOMAIN MappingsBefore : PortPair(MappingsBefore[i]) # PortPair(Targets[1])
    /\ Len(MappingsAfter) = Len(MappingsBefore) + 1

\* the ids props chooses are distinct: no two entries of loadBalancers with the
\* same load balancer or load balancer id, no two listeners of an entry with
\* the same name
ChosenIdsDistinct ==
    IsDef(Props.loadBalancers) =>
        /\ \A i \in DOMAIN Val(Props.loadBalancers) : \A k \in DOMAIN Val(Props.loadBalancers) :
              i # k => NodeId(LbPathOf(Val(Props.loadBalancers)[i]))
                          # NodeId(LbPathOf(Val(Props.loadBalancers)[k]))
        /\ \A i \in DOMAIN Val(Props.loadBalancers) :
              HasListeners(Val(Props.loadBalancers)[i]) =>
                 \A j \in DOMAIN Val(Val(Props.loadBalancers)[i].listeners) :
                 \A h \in DOMAIN Val(Val(Props.loadBalancers)[i].listeners) :
                    j # h => Val(Val(Props.loadBalancers)[i].listeners)[j].name
                                # Val(Val(Props.loadBalancers)[i].listeners)[h].name

\* C18 as stated: for props that pass validateInput the constructor never
\* creates two children with the same id under one scope: the ids it uses for
\* load balancers, listeners, 'Certificate', 'DNS', the outputs and the target
\* groups are distinct within their scope, also with several entries that have
\* domain names or HTTPS listeners without certificates, and with several
\* targetGroups on one listener.
C18_NoDuplicateIds ==
    (Validated /\ ChosenIdsDistinct) => This.error # ErrDuplicateId

====
